---- MODULE Spec2Model ----
(***************************************************************************)
(* A model of the CHIP-8 virtual machine of src/js/sketch.js: the class    *)
(* Chip8 (memory, registers, stack, framebuffer, fetch / decode / execute, *)
(* panic, loadROM) and the class Chip8Debugger that drives it (single      *)
(* step, start / stop / continue button, the execution timer).             *)
(*                                                                         *)
(* JavaScript values that are not numbers are encoded as negative          *)
(* integers: Undefined (a read outside a typed array, e.g. memory[4096] or *)
(* stack[16]) and NaN (arithmetic on undefined).  Every operator below     *)
(* that consumes a value which may be one of the two treats it as the      *)
(* language does (ToInt32 for bit operations, NaN for +, false for < and   *)
(* >=, 0 when stored into a typed array).                                  *)
(*                                                                         *)
(* The two large typed arrays are held in a sparse form.  memory is the    *)
(* function from the addresses of its non-zero cells to their bytes (a     *)
(* cell of 0..4095 outside its domain holds 0), and frameBuffer is the set *)
(* of the indices of the pixels that hold 1 (every other pixel of 0..2047  *)
(* holds 0; the code only ever stores 0 or 1 there).                       *)
(***************************************************************************)
EXTENDS Integers, Sequences, FiniteSets, TLC

Undefined == 0 - 1
NaN == 0 - 2

MemSize == 4096
Entrypoint == \h200
FontBase == \h50
StackSize == 16
FrameWidth == 64
FrameHeight == 32
FrameSize == FrameWidth * FrameHeight
TimerStopPC == \hfff

\* ------------------------------------------------------------------ bounds
\* number of loadROM calls in one behaviour
MaxLoads == 1
\* intervals that were created by continueExecution and can no longer be
\* cleared because executionInterval was overwritten
MaxOrphans == 1
\* execution is followed while PC <= MaxPC (PC runs away above the memory)
MaxPC == 4100

\* ----------------------------------------------------- JavaScript helpers
IsNum(x) == x >= 0

ToInt32(x) == IF IsNum(x) THEN x ELSE 0

RECURSIVE And(_, _)
And(a, b) ==
  IF a = 0 \/ b = 0 THEN 0
  ELSE (a % 2) * (b % 2) + 2 * And(a \div 2, b \div 2)

RECURSIVE Or(_, _)
Or(a, b) ==
  IF a = 0 THEN b
  ELSE IF b = 0 THEN a
  ELSE (IF a % 2 = 1 \/ b % 2 = 1 THEN 1 ELSE 0) + 2 * Or(a \div 2, b \div 2)

RECURSIVE Xor(_, _)
Xor(a, b) ==
  IF a = 0 THEN b
  ELSE IF b = 0 THEN a
  ELSE ((a + b) % 2) + 2 * Xor(a \div 2, b \div 2)

\* a & b
JsAnd(a, b) == And(ToInt32(a), ToInt32(b))

\* a + b
JsPlus(a, b) == IF IsNum(a) /\ IsNum(b) THEN a + b ELSE NaN

\* a < b and a >= b are false when an operand is NaN (undefined converts to NaN)
JsLess(a, b) == IsNum(a) /\ IsNum(b) /\ a < b
JsGeq(a, b) == IsNum(a) /\ IsNum(b) /\ a >= b

\* x++ / x += 2 / x -= 2 on a value that may be undefined or NaN
JsInc(x, d) == IF IsNum(x) THEN x + d ELSE NaN

\* the value a Uint8Array / Uint16Array element holds after "a[i] = x",
\* for x a non-negative number, undefined or NaN
ToUint8(x) == IF IsNum(x) THEN x % 256 ELSE 0
ToUint16(x) == IF IsNum(x) THEN x % 65536 ELSE 0

\* the register value after "V[i] = n" for an integer n of either sign
Wrap8(n) == n % 256

\* typed array reads: undefined outside the array (and at index undefined / NaN)
ReadMem(mem, a) ==
  IF a \in DOMAIN mem THEN mem[a]
  ELSE IF a \in 0..(MemSize - 1) THEN 0 ELSE Undefined
ReadStack(stk, i) == IF i \in 0..(StackSize - 1) THEN stk[i] ELSE Undefined
ReadFrame(fb, p) ==
  IF p \in fb THEN 1
  ELSE IF p \in 0..(FrameSize - 1) THEN 0 ELSE Undefined

\* the sparse form of the Uint8Array array: its non-zero cells
Sparse(array) ==
  [a \in {b \in DOMAIN array : array[b] # 0} |-> array[a]]

\* x.toString(16) throws a TypeError when x is undefined
ToStringThrows(x) == x = Undefined

\* ------------------------------------------------------------- constructor
FontTable ==
  << 240, 144, 144, 144, 240,
     32, 96, 32, 32, 112,
     240, 16, 240, 128, 240,
     240, 16, 240, 16, 240,
     144, 144, 240, 16, 16,
     240, 128, 240, 16, 240,
     240, 128, 240, 144, 240,
     240, 16, 32, 64, 64,
     240, 144, 240, 144, 240,
     240, 144, 240, 16, 240,
     240, 144, 240, 144, 144,
     224, 144, 224, 144, 224,
     240, 128, 128, 128, 240,
     224, 144, 144, 144, 224,
     240, 128, 240, 128, 240,
     240, 128, 240, 128, 128 >>

\* new Uint8Array(4096), then memory.set(font, 0x50)
InitMemory ==
  Sparse([a \in 0..(MemSize - 1) |->
            IF a >= FontBase /\ a < FontBase + Len(FontTable)
            THEN FontTable[a - FontBase + 1] ELSE 0])

NewChip8 ==
  [memory |-> InitMemory,
   V |-> [i \in 0..15 |-> 0],
   I |-> 0,
   PC |-> Entrypoint,
   SP |-> 0,
   stack |-> [i \in 0..(StackSize - 1) |-> 0],
   frameBuffer |-> {},
   halt |-> FALSE,
   panicState |-> FALSE]

\* ------------------------------------------------------------------- fetch
\* opcodes.push(this.memory[this.PC++]) twice
Fetch(m) ==
  [op0 |-> ReadMem(m.memory, m.PC),
   op1 |-> ReadMem(m.memory, JsInc(m.PC, 1)),
   m |-> [m EXCEPT !.PC = JsInc(m.PC, 2)]]

\* ------------------------------------------------------------------ decode
HiNibble(op) == JsAnd(op, \hf0)
LoNibble(op) == JsAnd(op, \h0f)

\* case opcodes[0] & (0xf0 === 0x0): the parenthesised comparison is false,
\* so the case value is the number opcodes[0] & 0, and switch (true)
\* compares with ===: a number is never === true
NumberIsTrue(n) == FALSE
SysCaseMatches(op0) == NumberIsTrue(JsAnd(op0, 0))

\* mutant: decode without its default case
Decode_NoDefault(op0, op1) ==
  IF op0 = 0 /\ op1 = 0 THEN "ZERO"
  ELSE IF HiNibble(op0) = \h80 THEN "LD"
  ELSE "none"

Decode(op0, op1) ==
  LET hi == HiNibble(op0)
      lo == LoNibble(op1)
  IN
  IF SysCaseMatches(op0) THEN "SYS"
  ELSE IF op0 = 0 /\ op1 = \he0 THEN "CLS"
  ELSE IF op0 = 0 /\ op1 = \hee THEN "RET"
  ELSE IF hi = \h10 THEN "JP"
  ELSE IF hi = \h20 THEN "CALL"
  ELSE IF hi = \h30 THEN "SE"
  ELSE IF hi = \h40 THEN "SNE"
  ELSE IF hi = \h50 /\ lo = \h0 THEN "SE"
  ELSE IF hi = \h60 THEN "LD"
  ELSE IF hi = \h70 THEN "ADD"
  ELSE IF hi = \h80 /\ lo = \h0 THEN "LD"
  ELSE IF hi = \h80 /\ lo = \h1 THEN "OR"
  ELSE IF hi = \h80 /\ lo = \h2 THEN "AND"
  ELSE IF hi = \h80 /\ lo = \h3 THEN "XOR"
  ELSE IF hi = \h80 /\ lo = \h4 THEN "ADD"
  ELSE IF hi = \h80 /\ lo = \h5 THEN "SUB"
  ELSE IF hi = \h80 /\ lo = \h6 THEN "SHR"
  ELSE IF hi = \h80 /\ lo = \h7 THEN "SUBN"
  ELSE IF hi = \h80 /\ lo = \he THEN "SHL"
  ELSE IF hi = \h90 /\ lo = \h0 THEN "SNE"
  ELSE IF hi = \ha0 THEN "LD"
  ELSE IF hi = \hb0 THEN "JP"
  ELSE IF hi = \hc0 THEN "RND"
  ELSE IF hi = \hd0 THEN "DRW"
  ELSE IF op0 = 0 /\ op1 = 0 THEN "ZERO"
  ELSE "INVALID"

\* ----------------------------------------------------------------- execute
Done(m) == [m |-> m, threw |-> FALSE]
Thrown(m) == [m |-> m, threw |-> TRUE]

\* panic(message): sets both flags, rewinds PC, throws
Panic(m) ==
  [m EXCEPT !.panicState = TRUE, !.halt = TRUE, !.PC = JsInc(m.PC, 0 - 2)]

\* mutant: the guard never fires
CheckVFWriteGaurd_Off(op0) == FALSE

\* checkVFWriteGaurd(opcode) panics
CheckVFWriteGaurd(op0) == LoNibble(op0) = \hf

\* ((opcodes[0] & 0x0f) << 8) + opcodes[1]
Addr(op0, op1) == JsPlus(LoNibble(op0) * 256, op1)
\* opcodes[0] & 0x0f and (opcodes[1] & 0xf0) >> 0x4
RegX(op0) == LoNibble(op0)
RegY(op1) == HiNibble(op1) \div 16

\* mutant: clearFrameBuffer() that clears nothing
ClearFrameBuffer_Nothing(m) == m

\* frameBuffer.fill(0x0)
ClearFrameBuffer(m) ==
  [m EXCEPT !.frameBuffer = {p \in 0..(FrameSize - 1) : FALSE}]

ExecSYS(m) == Done(m)

ExecCLS(m) == Done(ClearFrameBuffer(m))

ExecRET(m) ==
  IF m.SP = 0 THEN Thrown(Panic(m))
  ELSE Done([m EXCEPT !.PC = ReadStack(m.stack, m.SP), !.SP = m.SP - 1])

\* mutant: JP without the reserved address guards
ExecJP_NoReservedGuard(m, op0, op1) ==
  LET addr == Addr(op0, op1) IN
  IF HiNibble(op0) = \h10 THEN
    IF JsGeq(addr, MemSize) THEN Thrown(Panic(m))
    ELSE Done([m EXCEPT !.PC = addr])
  ELSE IF HiNibble(op0) = \hb0 THEN
    IF JsGeq(addr, MemSize) THEN Thrown(Panic(m))
    ELSE Done([m EXCEPT !.PC = JsPlus(addr, m.V[0])])
  ELSE Done(m)

ExecJP(m, op0, op1) ==
  LET addr == Addr(op0, op1) IN
  IF HiNibble(op0) = \h10 THEN
    IF JsLess(addr, Entrypoint) THEN Thrown(Panic(m))
    ELSE IF JsGeq(addr, MemSize) THEN Thrown(Panic(m))
    ELSE Done([m EXCEPT !.PC = addr])
  ELSE IF HiNibble(op0) = \hb0 THEN
    IF JsLess(addr, Entrypoint) THEN Thrown(Panic(m))
    ELSE IF JsGeq(addr, MemSize) THEN Thrown(Panic(m))
    ELSE Done([m EXCEPT !.PC = JsPlus(addr, m.V[0])])
  ELSE Done(m)

\* mutant: CALL without the stack overflow guard
ExecCALL_NoOverflowGuard(m, op0, op1) ==
  LET addr == Addr(op0, op1) IN
  IF JsLess(addr, Entrypoint) THEN Thrown(Panic(m))
  ELSE Done([m EXCEPT !.stack = [i \in 0..(StackSize - 1) |->
                                   IF i = m.SP THEN ToUint16(m.PC) ELSE m.stack[i]],
                      !.SP = m.SP + 1,
                      !.PC = addr])

ExecCALL(m, op0, op1) ==
  LET addr == Addr(op0, op1) IN
  IF JsLess(addr, Entrypoint) THEN Thrown(Panic(m))
  ELSE IF m.SP >= StackSize THEN Thrown(Panic(m))
  ELSE Done([m EXCEPT !.stack[m.SP] = ToUint16(m.PC),
                      !.SP = m.SP + 1,
                      !.PC = addr])

ExecSE(m, op0, op1) ==
  IF HiNibble(op0) = \h30 THEN
    IF m.V[RegX(op0)] = op1 THEN Done([m EXCEPT !.PC = JsInc(m.PC, 2)]) ELSE Done(m)
  ELSE IF HiNibble(op0) = \h50 THEN
    IF m.V[RegX(op0)] = m.V[RegY(op1)]
    THEN Done([m EXCEPT !.PC = JsInc(m.PC, 2)]) ELSE Done(m)
  ELSE Done(m)

\* mutant: SNE Vx,kk that skips when the operands are equal
ExecSNE_SkipsOnEqual(m, op0, op1) ==
  IF HiNibble(op0) = \h90 /\ LoNibble(op1) = 0 THEN
    IF m.V[RegX(op0)] # m.V[RegY(op1)]
    THEN Done([m EXCEPT !.PC = JsInc(m.PC, 2)]) ELSE Done(m)
  ELSE IF HiNibble(op0) = \h40 THEN
    IF m.V[RegX(op0)] = op1 THEN Done([m EXCEPT !.PC = JsInc(m.PC, 2)]) ELSE Done(m)
  ELSE Done(m)

ExecSNE(m, op0, op1) ==
  IF HiNibble(op0) = \h90 /\ LoNibble(op1) = 0 THEN
    IF m.V[RegX(op0)] # m.V[RegY(op1)]
    THEN Done([m EXCEPT !.PC = JsInc(m.PC, 2)]) ELSE Done(m)
  ELSE IF HiNibble(op0) = \h40 THEN
    IF m.V[RegX(op0)] # op1 THEN Done([m EXCEPT !.PC = JsInc(m.PC, 2)]) ELSE Done(m)
  ELSE Done(m)

\* mutant: LD Vx,kk that adds kk to Vx
ExecLD_Adds(m, op0, op1) ==
  IF HiNibble(op0) = \h60 THEN
    IF CheckVFWriteGaurd(op0) THEN Thrown(Panic(m))
    ELSE Done([m EXCEPT !.V[RegX(op0)] = ToUint8(m.V[RegX(op0)] + op1)])
  ELSE IF HiNibble(op0) = \ha0 THEN
    Done([m EXCEPT !.I = Addr(op0, op1)])
  ELSE IF HiNibble(op0) = \h80 /\ LoNibble(op1) = 0 THEN
    IF CheckVFWriteGaurd(op0) THEN Thrown(Panic(m))
    ELSE Done([m EXCEPT !.V[RegX(op0)] = m.V[RegY(op1)]])
  ELSE Done(m)

ExecLD(m, op0, op1) ==
  IF HiNibble(op0) = \h60 THEN
    IF CheckVFWriteGaurd(op0) THEN Thrown(Panic(m))
    ELSE Done([m EXCEPT !.V[RegX(op0)] = ToUint8(op1)])
  ELSE IF HiNibble(op0) = \ha0 THEN
    Done([m EXCEPT !.I = Addr(op0, op1)])
  ELSE IF HiNibble(op0) = \h80 /\ LoNibble(op1) = 0 THEN
    IF CheckVFWriteGaurd(op0) THEN Thrown(Panic(m))
    ELSE Done([m EXCEPT !.V[RegX(op0)] = m.V[RegY(op1)]])
  ELSE Done(m)

\* mutant: ADD Vx,Vy that leaves VF alone
ExecADD_NoCarry(m, op0, op1) ==
  IF CheckVFWriteGaurd(op0) THEN Thrown(Panic(m))
  ELSE IF HiNibble(op0) = \h70 THEN
    Done([m EXCEPT !.V[RegX(op0)] = ToUint8(JsPlus(m.V[RegX(op0)], op1))])
  ELSE IF HiNibble(op0) = \h80 /\ LoNibble(op1) = 4 THEN
    Done([m EXCEPT !.V[RegX(op0)] =
            And(m.V[RegX(op0)] + m.V[RegY(op1)], \hff)])
  ELSE Done(m)

ExecADD(m, op0, op1) ==
  IF CheckVFWriteGaurd(op0) THEN Thrown(Panic(m))
  ELSE IF HiNibble(op0) = \h70 THEN
    Done([m EXCEPT !.V[RegX(op0)] = ToUint8(JsPlus(m.V[RegX(op0)], op1))])
  ELSE IF HiNibble(op0) = \h80 /\ LoNibble(op1) = 4 THEN
    LET sum == m.V[RegX(op0)] + m.V[RegY(op1)]
        m1 == [m EXCEPT !.V[RegX(op0)] = And(sum, \hff)]
    IN Done([m1 EXCEPT !.V[\hf] = IF sum > \hff THEN 1 ELSE 0])
  ELSE Done(m)

\* mutant: OR without the VF write guard
ExecOR_NoGuard(m, op0, op1) ==
  Done([m EXCEPT !.V[RegX(op0)] = Or(m.V[RegX(op0)], m.V[RegY(op1)])])

ExecOR(m, op0, op1) ==
  IF CheckVFWriteGaurd(op0) THEN Thrown(Panic(m))
  ELSE Done([m EXCEPT !.V[RegX(op0)] = Or(m.V[RegX(op0)], m.V[RegY(op1)])])

ExecAND(m, op0, op1) ==
  IF CheckVFWriteGaurd(op0) THEN Thrown(Panic(m))
  ELSE Done([m EXCEPT !.V[RegX(op0)] = And(m.V[RegX(op0)], m.V[RegY(op1)])])

\* mutant: XOR Vx,Vy computed as an inclusive or
ExecXOR_Inclusive(m, op0, op1) ==
  IF CheckVFWriteGaurd(op0) THEN Thrown(Panic(m))
  ELSE Done([m EXCEPT !.V[RegX(op0)] = Or(m.V[RegX(op0)], m.V[RegY(op1)])])

ExecXOR(m, op0, op1) ==
  IF CheckVFWriteGaurd(op0) THEN Thrown(Panic(m))
  ELSE Done([m EXCEPT !.V[RegX(op0)] = Xor(m.V[RegX(op0)], m.V[RegY(op1)])])

\* V[0xf] is written first; V[y] is read again for the subtraction
ExecSUB(m, op0, op1) ==
  IF CheckVFWriteGaurd(op0) THEN Thrown(Panic(m))
  ELSE
    LET m1 == [m EXCEPT !.V[\hf] =
                 IF m.V[RegX(op0)] > m.V[RegY(op1)] THEN 1 ELSE 0]
    IN Done([m1 EXCEPT !.V[RegX(op0)] =
                 Wrap8(m1.V[RegX(op0)] - m1.V[RegY(op1)])])

\* mutant: SHR that shifts before it takes the flag
ExecSHR_ShiftFirst(m, op0, op1) ==
  IF CheckVFWriteGaurd(op0) THEN Thrown(Panic(m))
  ELSE
    LET m1 == [m EXCEPT !.V[RegX(op0)] = m.V[RegX(op0)] \div 2]
    IN Done([m1 EXCEPT !.V[\hf] = And(m1.V[RegX(op0)], 1)])

ExecSHR(m, op0, op1) ==
  IF CheckVFWriteGaurd(op0) THEN Thrown(Panic(m))
  ELSE
    LET m1 == [m EXCEPT !.V[\hf] = And(m.V[RegX(op0)], 1)]
    IN Done([m1 EXCEPT !.V[RegX(op0)] = m1.V[RegX(op0)] \div 2])

ExecSUBN(m, op0, op1) ==
  IF CheckVFWriteGaurd(op0) THEN Thrown(Panic(m))
  ELSE
    LET m1 == [m EXCEPT !.V[\hf] =
                 IF m.V[RegY(op1)] > m.V[RegX(op0)] THEN 1 ELSE 0]
    IN Done([m1 EXCEPT !.V[RegX(op0)] =
                 Wrap8(m1.V[RegY(op1)] - m1.V[RegX(op0)])])

ExecSHL(m, op0, op1) ==
  IF CheckVFWriteGaurd(op0) THEN Thrown(Panic(m))
  ELSE
    LET m1 == [m EXCEPT !.V[\hf] = m.V[RegX(op0)] \div 128]
    IN Done([m1 EXCEPT !.V[RegX(op0)] = Wrap8(m1.V[RegX(op0)] * 2)])

\* Math.floor(Math.random() * 0xff)
RandomValues == 0..254

ExecRND(m, op0, op1, r) ==
  IF CheckVFWriteGaurd(op0) THEN Thrown(Panic(m))
  ELSE Done([m EXCEPT !.V[RegX(op0)] = JsAnd(r, op1)])

\* mutant: DRW that wraps around the edges of the 64x32 display
FrameBufferOffset_Wraps(Vx, Vy, i, e) ==
  ((Vy + i) % FrameHeight) * FrameWidth + ((Vx + (7 - e)) % FrameWidth)

\* the frameBuffer index the inner loop of DRW touches for row i and bit e
FrameBufferOffset(Vx, Vy, i, e) ==
  Vy * FrameWidth + Vx + (7 - e) + i * FrameWidth

\* newPixel of the inner loop of DRW, for row i and bit e
NewPixel(m, i, e) ==
  IF JsAnd(ReadMem(m.memory, JsPlus(m.I, i)), 2 ^ e) = 2 ^ e THEN 1 ELSE 0

\* mutant: DRW that sets VF = 0 when no pixel was erased
ExecDRW_ResetsVF(m, op0, op1) ==
  LET Vx == m.V[RegX(op0)]
      Vy == m.V[RegY(op1)]
      n == LoNibble(op1)
      set == {FrameBufferOffset(Vx, Vy, ie[1], ie[2]) :
                ie \in {p \in (0..(n - 1)) \X (0..7) : NewPixel(m, p[1], p[2]) = 1}}
      inside == set \cap (0..(FrameSize - 1))
      collision == \E p \in set : ReadFrame(m.frameBuffer, p) = 1
      drawn == [m EXCEPT !.frameBuffer =
                  (m.frameBuffer \ inside) \cup (inside \ m.frameBuffer)]
  IN Done([drawn EXCEPT !.V[\hf] = IF collision THEN 1 ELSE 0])

\* mutant: DRW that sets the pixels of the sprite instead of toggling them
ExecDRW_Overwrites(m, op0, op1) ==
  LET Vx == m.V[RegX(op0)]
      Vy == m.V[RegY(op1)]
      n == LoNibble(op1)
      set == {FrameBufferOffset(Vx, Vy, ie[1], ie[2]) :
                ie \in {p \in (0..(n - 1)) \X (0..7) : NewPixel(m, p[1], p[2]) = 1}}
      inside == set \cap (0..(FrameSize - 1))
      collision == \E p \in set : ReadFrame(m.frameBuffer, p) = 1
      drawn == [m EXCEPT !.frameBuffer = m.frameBuffer \cup inside]
  IN Done(IF collision THEN [drawn EXCEPT !.V[\hf] = 1] ELSE drawn)

\* the two nested loops of DRW: no two iterations touch the same index, so
\* every iteration reads the pixel the instruction started with; a write
\* outside the typed array is dropped and a read outside it is undefined
ExecDRW(m, op0, op1) ==
  LET Vx == m.V[RegX(op0)]
      Vy == m.V[RegY(op1)]
      n == LoNibble(op1)
      set == {FrameBufferOffset(Vx, Vy, ie[1], ie[2]) :
                ie \in {p \in (0..(n - 1)) \X (0..7) : NewPixel(m, p[1], p[2]) = 1}}
      inside == set \cap (0..(FrameSize - 1))
      collision == \E p \in set : ReadFrame(m.frameBuffer, p) = 1
      drawn == [m EXCEPT !.frameBuffer =
                  (m.frameBuffer \ inside) \cup (inside \ m.frameBuffer)]
  IN Done(IF collision THEN [drawn EXCEPT !.V[\hf] = 1] ELSE drawn)

\* mutant: an opcode that is not recognized is passed over
ExecINVALID_Ignores(m, op0, op1) == Done(m)

\* default: the template literal is evaluated before panic is called
ExecINVALID(m, op0, op1) ==
  IF ToStringThrows(op0) \/ ToStringThrows(op1) THEN Thrown(m)
  ELSE Thrown(Panic(m))

\* mutant: case "ZERO" ends with a break
ExecZERO_Break(m, op0, op1) ==
  Done([m EXCEPT !.halt = TRUE, !.panicState = TRUE])

\* case "ZERO" has no break and falls into default
ExecZERO(m, op0, op1) ==
  ExecINVALID([m EXCEPT !.halt = TRUE, !.panicState = TRUE], op0, op1)

Dispatch(m, mnemonic, op0, op1, r) ==
  CASE mnemonic = "SYS" -> ExecSYS(m)
    [] mnemonic = "CLS" -> ExecCLS(m)
    [] mnemonic = "RET" -> ExecRET(m)
    [] mnemonic = "JP" -> ExecJP(m, op0, op1)
    [] mnemonic = "CALL" -> ExecCALL(m, op0, op1)
    [] mnemonic = "SE" -> ExecSE(m, op0, op1)
    [] mnemonic = "SNE" -> ExecSNE(m, op0, op1)
    [] mnemonic = "LD" -> ExecLD(m, op0, op1)
    [] mnemonic = "ADD" -> ExecADD(m, op0, op1)
    [] mnemonic = "OR" -> ExecOR(m, op0, op1)
    [] mnemonic = "AND" -> ExecAND(m, op0, op1)
    [] mnemonic = "XOR" -> ExecXOR(m, op0, op1)
    [] mnemonic = "SUB" -> ExecSUB(m, op0, op1)
    [] mnemonic = "SHR" -> ExecSHR(m, op0, op1)
    [] mnemonic = "SUBN" -> ExecSUBN(m, op0, op1)
    [] mnemonic = "SHL" -> ExecSHL(m, op0, op1)
    [] mnemonic = "RND" -> ExecRND(m, op0, op1, r)
    [] mnemonic = "DRW" -> ExecDRW(m, op0, op1)
    [] mnemonic = "ZERO" -> ExecZERO(m, op0, op1)
    [] OTHER -> ExecINVALID(m, op0, op1)

\* mutant: execute() tests panicState alone
Skips_PanicOnly(m) == m.panicState

\* execute() returns at once when halted or panicked
Skips(m) == m.halt \/ m.panicState

\* execute(), r being the value Math.random yields if the instruction is RND
Execute(m, r) ==
  IF Skips(m) THEN Done(m)
  ELSE LET f == Fetch(m)
       IN Dispatch(f.m, Decode(f.op0, f.op1), f.op0, f.op1, r)

\* mutant: loadROM without the flush of the old image
LoadROM_NoFlush(m, byteArray) ==
  LET written == {Entrypoint + i - 1 : i \in 1..Len(byteArray)}
      kept == {a \in DOMAIN m.memory \cup written :
                 IF a \in written THEN byteArray[a - Entrypoint + 1] # 0
                 ELSE TRUE}
  IN IF Len(byteArray) > MemSize - Entrypoint
     THEN Thrown(m)
     ELSE Done([m EXCEPT !.memory =
                  [a \in kept |-> IF a \in written
                                  THEN byteArray[a - Entrypoint + 1]
                                  ELSE m.memory[a]]])

\* mutant: loadROM that flushes the whole memory
LoadROM_FlushAll(m, byteArray) ==
  LET written == {Entrypoint + i - 1 : i \in {j \in 1..Len(byteArray) : byteArray[j] # 0}}
  IN IF Len(byteArray) > MemSize - Entrypoint
     THEN Thrown([m EXCEPT !.memory = [a \in {} |-> 0]])
     ELSE Done([m EXCEPT !.memory =
                  [a \in written |-> byteArray[a - Entrypoint + 1]]])

\* loadROM(byteArray): TypedArray.prototype.set throws a RangeError, after
\* the flush, when the source does not fit
LoadROM(m, byteArray) ==
  LET \* memory.set(new Uint8Array(4096 - entrypoint).fill(0x0), entrypoint)
      flushed == [a \in {b \in DOMAIN m.memory : b < Entrypoint} |-> m.memory[a]]
      \* memory.set(byteArray, entrypoint)
      written == {Entrypoint + i - 1 : i \in {j \in 1..Len(byteArray) : byteArray[j] # 0}}
      loaded == [a \in DOMAIN flushed \cup written |->
                   IF a >= Entrypoint THEN byteArray[a - Entrypoint + 1]
                   ELSE flushed[a]]
  IN IF Len(byteArray) > MemSize - Entrypoint
     THEN Thrown([m EXCEPT !.memory = flushed])
     ELSE Done([m EXCEPT !.memory = loaded])

\* ---------------------------------------------------- formatDisassembly
\* n.toString(16), as the sequence of its hexadecimal digits
Hex(n) ==
  IF n < 16 THEN << n >>
  ELSE IF n < 256 THEN << n \div 16, n % 16 >>
  ELSE IF n < 4096 THEN << n \div 256, (n \div 16) % 16, n % 16 >>
  ELSE << n \div 4096, (n \div 256) % 16, (n \div 16) % 16, n % 16 >>

\* (pad + s).slice(-k): the last k characters of the padded text
PadSlice(pad, s, k) ==
  LET t == pad \o s IN SubSeq(t, Len(t) - k + 1, Len(t))

\* the pieces of text the template literals put after the mnemonic
RegText(n) == [prefix |-> "v", digits |-> Hex(n)]
ImmText(n) == [prefix |-> "0x", digits |-> Hex(n)]
IText == [prefix |-> "I", digits |-> << >>]
ByteText(n) == [prefix |-> "", digits |-> PadSlice(<< 0 >>, Hex(n), 2)]

\* one template literal ending in a newline, and a branch that appends nothing
Body(mnemonic, operands) ==
  [mnemonic |-> mnemonic, operands |-> operands, newline |-> TRUE]
NoText == [mnemonic |-> "", operands |-> << >>, newline |-> FALSE]

\* the switch (mnemonic) of formatDisassembly: the text appended after the
\* address and the two bytes; there is no case "SHL", and case "ZERO"
\* returns without appending
DisasmBody(mnemonic, op0, op1) ==
  LET hi == HiNibble(op0)
      lo == LoNibble(op1)
      x == RegText(LoNibble(op0))
      y == RegText(HiNibble(op1) \div 16)
      kk == ImmText(op1)
      nnn == ImmText(LoNibble(op0) * 256 + op1)
  IN
  IF mnemonic \in { "SYS", "CLS", "RET" } THEN Body(mnemonic, << >>)
  ELSE IF mnemonic = "JP" THEN
    IF hi = \h10 THEN Body(mnemonic, << nnn >>)
    ELSE IF hi = \hb0 THEN Body(mnemonic, << RegText(0), nnn >>)
    ELSE NoText
  ELSE IF mnemonic = "CALL" THEN Body(mnemonic, << nnn >>)
  ELSE IF mnemonic = "SE" THEN
    IF hi = \h30 THEN Body(mnemonic, << x, kk >>)
    ELSE IF hi = \h50 THEN Body(mnemonic, << x, y >>)
    ELSE NoText
  ELSE IF mnemonic = "SNE" THEN
    IF hi = \h90 /\ lo = \h0 THEN Body(mnemonic, << x, y >>)
    ELSE IF hi = \h40 THEN Body(mnemonic, << x, kk >>)
    ELSE NoText
  ELSE IF mnemonic = "LD" THEN
    IF hi = \h60 THEN Body(mnemonic, << x, kk >>)
    ELSE IF hi = \ha0 THEN Body(mnemonic, << IText, nnn >>)
    ELSE IF hi = \h80 /\ lo = \h0 THEN Body(mnemonic, << x, y >>)
    ELSE NoText
  ELSE IF mnemonic = "ADD" THEN
    IF hi = \h70 THEN Body(mnemonic, << x, kk >>)
    ELSE IF hi = \h80 /\ lo = \h4 THEN Body(mnemonic, << x, y >>)
    ELSE NoText
  ELSE IF mnemonic \in { "OR", "AND", "XOR", "SUB", "SHR", "SUBN" } THEN
    Body(mnemonic, << x, y >>)
  ELSE IF mnemonic = "RND" THEN Body(mnemonic, << x, ImmText(lo) >>)
  ELSE IF mnemonic = "DRW" THEN Body(mnemonic, << x, y, ImmText(lo) >>)
  ELSE IF mnemonic = "ZERO" THEN NoText
  ELSE Body("(U)", << ByteText(op0), ByteText(op1) >>)

\* what one iteration of the loop appends to dumpText for address i: the
\* marker, the address and the two bytes, and then what the switch appends
DisasmEntry(m, i) ==
  LET op0 == ReadMem(m.memory, i)
      op1 == ReadMem(m.memory, i + 1)
  IN [marker |-> m.PC = i,
      addr |-> PadSlice(<< 0, 0 >>, Hex(i), 4),
      bytes |-> << ByteText(op0), ByteText(op1) >>,
      body |-> DisasmBody(Decode(op0, op1), op0, op1)]

\* the addresses for (let i = 0x200; i < 0xfff; i += 0x2) visits
DisasmAddr(k) == Entrypoint + 2 * k
DisasmCount == (TimerStopPC + 1 - Entrypoint) \div 2

\* formatDisassembly(): the entries appended to dumpText, up to and
\* including the one after which case "ZERO" returns
FormatDisassembly(m) ==
  LET Returns(k) ==
        k = DisasmCount
        \/ Decode(ReadMem(m.memory, DisasmAddr(k)),
                  ReadMem(m.memory, DisasmAddr(k) + 1)) = "ZERO"
      last == CHOOSE k \in 0..DisasmCount :
                Returns(k) /\ \A j \in 0..(k - 1) : ~Returns(j)
      n == IF last = DisasmCount THEN last ELSE last + 1
  IN [k \in 1..n |-> DisasmEntry(m, DisasmAddr(k - 1))]

\* ------------------------------------------------------------ ROM images
\* the images of the test functions of the source
TestGeneric == << \h64, \h02, \hc4, \hff, \h12, \h04 >>

TestDraw ==
  << \h00, \he0, \h62, \h0b, \h83, \h20, \ha0, \h50, \hd2, \h35, \h12, \h0a >>

\* CALL 0x200 at 0x200
CallSelf == << \h22, \h00 >>
\* CALL 0x204 ; 0000 ; RET
CallRet == << \h22, \h04, \h00, \h00, \h00, \hee >>
\* CALL 0x204 ; 0000 ; CALL 0x208 ; 0000 ; RET
CallCallRet ==
  << \h22, \h04, \h00, \h00, \h22, \h08, \h00, \h00, \h00, \hee >>
\* n CALLs, each to the next address, then RET
CallChain(n) ==
  [i \in 1..(2 * n + 2) |->
     IF i <= 2 * n THEN (IF i % 2 = 1 THEN \h22 ELSE i)
     ELSE IF i = 2 * n + 1 THEN \h00 ELSE \hee]

\* a full-size image: JP 0xFFC, zeroes, and the four bytes tail at 0xFFC
FullRom(tail) ==
  [i \in 1..(MemSize - Entrypoint) |->
     IF i = 1 THEN \h1f
     ELSE IF i = 2 THEN \hfc
     ELSE IF i > MemSize - Entrypoint - 4
          THEN tail[i - (MemSize - Entrypoint - 4)]
     ELSE 0]

\* JP 0xFFF, zeroes, and the byte last at 0xFFF
OddRom(last) ==
  [i \in 1..(MemSize - Entrypoint) |->
     IF i = 1 THEN \h1f
     ELSE IF i = 2 THEN \hff
     ELSE IF i = MemSize - Entrypoint THEN last
     ELSE 0]

\* register set-up run before the instruction under test
Prefixes ==
  { << >>,
    \* LD V0,0xFF ; ADD V0,V0 (VF = 1) ; LD V1,0x81 ; LD VE,0x03
    << \h60, \hff, \h80, \h04, \h61, \h81, \h6e, \h03 >> }

SomeX == { \h1, \hf }
SomeY == { \h0, \hf }
SomeKK == { \h01, \h81 }
SomeNNN == { \h000, \h123, \h1ff, \h200, \hffe, \hfff }

\* the instruction words under test, as byte pairs
Words ==
  \* 3xkk 4xkk 6xkk 7xkk Cxkk
  { << hi * 16 + x, kk >> :
       hi \in { \h3, \h4, \h6, \h7, \hc }, x \in SomeX, kk \in SomeKK }
  \cup
  \* 5xyN 8xyN 9xyN
  { << hi * 16 + x, y * 16 + n >> :
       hi \in { \h5, \h8, \h9 }, x \in SomeX, y \in SomeY, n \in 0..15 }
  \cup
  \* 0nnn 1nnn 2nnn Annn Bnnn
  { << hi * 16 + (nnn \div 256), nnn % 256 >> :
       hi \in { \h0, \h1, \h2, \ha, \hb }, nnn \in SomeNNN }
  \cup
  \* CLS, RET, a neighbour of each, DRW, Exxx, Fxxx
  { << \h00, \he0 >>, << \h00, \hee >>, << \h00, \he1 >>, << \h0f, \hff >>,
    << \hd0, \h15 >>, << \hd1, \hf2 >>,
    << \he0, \h9e >>, << \he1, \ha1 >>, << \hf1, \h07 >>, << \hf2, \h65 >> }

\* LD VA,0x3E ; LD VB,0x1E ; LD I,0x50 ; DRW VA,VB,5 ; JP 0x206: the font
\* sprite "0" drawn again and again across the end of the framebuffer
DrawRom ==
  << \h6a, \h3e, \h6b, \h1e, \ha0, \h50, \hda, \hb5, \h12, \h06 >>

\* a full-size image without a terminator: JP 0x200 in every word
FilledRom ==
  [i \in 1..(MemSize - Entrypoint) |-> IF i % 2 = 1 THEN \h12 ELSE \h00]

\* an image one byte longer than the program region
LongRom == [i \in 1..(MemSize - Entrypoint + 1) |-> \h01]

\* LD I,0x50 ; DRW V0,V0,5 ; CLS
DrawClsRom == << \ha0, \h50, \hd0, \h05, \h00, \he0 >>

Roms ==
  { pre \o w : pre \in Prefixes, w \in Words }
  \cup
  { TestGeneric, TestDraw, DrawRom, DrawClsRom, CallSelf, CallRet, CallCallRet,
    CallChain(3), CallChain(StackSize),
    \* LD V0,5 ; SE V0,5 at the end of the memory
    FullRom(<< \h60, \h05, \h30, \h05 >>),
    \* LD V0,5 ; 0000
    FullRom(<< \h60, \h05, \h00, \h00 >>),
    OddRom(\h00), OddRom(\h61), OddRom(\h41), OddRom(\h21), OddRom(\ha1),
    FilledRom, LongRom }

\* register values and operands of the single-instruction runs
SomeBytes == { \h00, \h01, \h80, \hff }
SomeXY == { << \h0, \h0 >>, << \h0, \h1 >>, << \h0, \hf >>,
            << \he, \h0 >>, << \he, \he >>, << \he, \hf >> }
SomeTargets == { \h000, \h1ff, \h200, \hf01, \hfff }

\* V0, V1 and VE hold any byte (LD Vx,kk writes it), VF holds a flag
InstrRegs ==
  { [i \in 0..15 |-> IF i = 0 THEN v0 ELSE IF i = 1 THEN v1
                      ELSE IF i = 14 THEN ve ELSE IF i = 15 THEN vf ELSE 0] :
      v0 \in SomeBytes, v1 \in SomeBytes, ve \in SomeBytes, vf \in {0, 1} }

\* the words of the single-instruction runs
InstrWords ==
  \* 3xkk 4xkk 6xkk 7xkk
  { << hi * 16 + x, kk >> :
       hi \in { \h3, \h4, \h6, \h7 }, x \in { \h0, \he }, kk \in SomeBytes }
  \cup
  \* 5xy0 9xy0 8xy0..8xy7 8xyE
  { << xyn[1] * 16 + xyn[2][1], xyn[2][2] * 16 + xyn[3] >> :
       xyn \in ({ \h5, \h9 } \X SomeXY \X { 0 })
                \cup ({ \h8 } \X SomeXY \X ((0..7) \cup { \he })) }
  \cup
  \* 1nnn 2nnn Bnnn
  { << hi * 16 + (nnn \div 256), nnn % 256 >> :
       hi \in { \h1, \h2, \hb }, nnn \in SomeTargets }

\* Cxkk
RndWords == { << \hc0, kk >> : kk \in { \h00, \h0f, \h81, \hff } }

\* the machine after loadROM of a register set-up program ending in
\* JP 0x200, single steps through it, and loadROM(w)
SetUp(w, V) ==
  [LoadROM(NewChip8, w).m EXCEPT !.V = V, !.halt = TRUE]

\* ------------------------------------------------------------------ state
VARIABLES
  chip8,              \* the Chip8 instance (a record of its fields)
  started,            \* chip8Debugger.started
  executionInterval,  \* "live" when chip8Debugger.executionInterval is the
                      \* id of an interval that has not been cleared
  orphans,            \* live intervals whose id is no longer held
  loads,              \* number of loadROM calls so far
  event               \* history: the last operation, whether its execute()
                      \* fetched, the instruction it fetched, and PC and SP
                      \* before the fetch

vars == << chip8, started, executionInterval, orphans, loads, event >>

\* the history of an operation that fetched nothing
NoFetch(name, threw) ==
  [name |-> name, fetched |-> FALSE, mnemonic |-> "none", op0 |-> 0,
   op1 |-> 0, addr |-> 0, sp |-> 0, threw |-> threw, rom |-> << >>]

\* the history of an operation whose execute() ran on m with result res
Fetched(name, m, res) ==
  IF Skips(m) THEN NoFetch(name, FALSE)
  ELSE LET f == Fetch(m) IN
       [name |-> name, fetched |-> TRUE,
        mnemonic |-> Decode(f.op0, f.op1), op0 |-> f.op0, op1 |-> f.op1,
        addr |-> m.PC, sp |-> m.SP, threw |-> res.threw, rom |-> << >>]

Init ==
  /\ chip8 = NewChip8
  /\ started = FALSE
  /\ executionInterval = "none"
  /\ orphans = 0
  /\ loads = 0
  /\ event = NoFetch("new", FALSE)

\* the values Math.random can contribute to execute() on m
RandomFor(m) ==
  IF ~Skips(m) /\ HiNibble(Fetch(m).op0) = \hc0
  THEN RandomValues ELSE {0}

\* the model follows execute() only up to PC = MaxPC
Followed(m) == ~IsNum(m.PC) \/ m.PC <= MaxPC

\* chip8.loadROM(rom), as main() and the test functions call it when the
\* page is loaded: before the first request to the debugger
LoadROMAction ==
  /\ ~started
  /\ loads < MaxLoads
  /\ \E rom \in Roms :
       LET res == LoadROM(chip8, rom) IN
       /\ chip8' = res.m
       /\ event' = [NoFetch("loadROM", res.threw) EXCEPT !.rom = rom]
  /\ loads' = loads + 1
  /\ UNCHANGED << started, executionInterval, orphans >>

\* Chip8Debugger.stepInstruction(): the line "halt = true" is not reached
\* when execute() throws
StepInstruction ==
  /\ Followed(chip8)
  /\ LET m == [chip8 EXCEPT !.halt = FALSE] IN
     \E r \in RandomFor(m) :
       LET res == Execute(m, r) IN
       /\ chip8' = IF res.threw THEN res.m ELSE [res.m EXCEPT !.halt = TRUE]
       /\ event' = Fetched("stepInstruction", m, res)
  /\ started' = TRUE
  /\ UNCHANGED << executionInterval, orphans, loads >>

\* mutant: continueExecution() clears panicState along with halt
ContinueExecution_ClearsPanic ==
  /\ started' = TRUE
  /\ chip8' = [chip8 EXCEPT !.halt = FALSE, !.panicState = FALSE]
  /\ orphans' = IF executionInterval = "live" THEN orphans + 1 ELSE orphans
  /\ orphans' <= MaxOrphans
  /\ executionInterval' = "live"
  /\ event' = NoFetch("continueExecution", FALSE)
  /\ UNCHANGED loads

\* Chip8Debugger.continueExecution(): the id of a live interval is lost
\* when executionInterval is assigned the new one
ContinueExecution ==
  /\ started' = TRUE
  /\ chip8' = [chip8 EXCEPT !.halt = FALSE]
  /\ orphans' = IF executionInterval = "live" THEN orphans + 1 ELSE orphans
  /\ orphans' <= MaxOrphans
  /\ executionInterval' = "live"
  /\ event' = NoFetch("continueExecution", FALSE)
  /\ UNCHANGED loads

\* mutant: stopExecution() cancels the timer it knows and leaves halt alone
StopExecution_ClearOnly ==
  /\ executionInterval' = "none"
  /\ chip8' = chip8
  /\ event' = NoFetch("stopExecution", FALSE)
  /\ UNCHANGED << started, orphans, loads >>

\* Chip8Debugger.stopExecution()
StopExecution ==
  /\ executionInterval' = "none"
  /\ chip8' = [chip8 EXCEPT !.halt = TRUE]
  /\ event' = NoFetch("stopExecution", FALSE)
  /\ UNCHANGED << started, orphans, loads >>

\* updateStartStopContinue(button): a click on start / stop / continue
StartStopContinue ==
  IF ~started THEN ContinueExecution
  ELSE IF ~chip8.halt THEN StopExecution
  ELSE ContinueExecution

\* the callback of an interval created by continueExecution(); when
\* execute() throws, the test of PC is not reached
Tick ==
  /\ executionInterval = "live" \/ orphans > 0
  /\ Followed(chip8)
  /\ \E r \in RandomFor(chip8) :
       LET res == Execute(chip8, r) IN
       /\ chip8' = res.m
       /\ executionInterval' =
            IF ~res.threw /\ JsGeq(res.m.PC, TimerStopPC)
            THEN "none" ELSE executionInterval
       /\ event' = Fetched("tick", chip8, res)
  /\ UNCHANGED << started, orphans, loads >>

Next ==
  \/ LoadROMAction
  \/ StepInstruction
  \/ StartStopContinue
  \/ Tick

Spec == Init /\ [][Next]_vars

\* ------------------------------------------- single-instruction executions
\* execute() applied by stepInstruction() to one instruction word on a
\* machine whose registers were set up
InitInstr ==
  /\ chip8 \in { SetUp(w, V) : w \in InstrWords, V \in InstrRegs }
               \cup { SetUp(w, [i \in 0..15 |-> 0]) : w \in RndWords }
  /\ started = TRUE
  /\ executionInterval = "none"
  /\ orphans = 0
  /\ loads = 0
  /\ event = NoFetch("loadROM", FALSE)

NextInstr == StepInstruction

SpecInstr == InitInstr /\ [][NextInstr]_vars

\* ------------------------------------------------------ loadROM on its own
\* the images a machine may hold when loadROM is called again
PriorImages == { << >>, TestDraw, OddRom(\ha1), FilledRom }

\* loadROM(byteArray) called on a machine that holds an earlier image
InitLoad ==
  /\ chip8 \in { LoadROM(NewChip8, rom).m : rom \in PriorImages }
  /\ started = FALSE
  /\ executionInterval = "none"
  /\ orphans = 0
  /\ loads = 0
  /\ event = NoFetch("new", FALSE)

NextLoad == LoadROMAction

SpecLoad == InitLoad /\ [][NextLoad]_vars

\* ------------------------------------------------------- decode on its own
\* decode(opcodes) applied to a pair of bytes; it reads its argument only
InitDecode ==
  /\ chip8 = NewChip8
  /\ started = FALSE
  /\ executionInterval = "none"
  /\ orphans = 0
  /\ loads = 0
  /\ \E b0 \in 0..255, b1 \in 0..255 :
       event = [NoFetch("opcodes", FALSE) EXCEPT !.op0 = b0, !.op1 = b1]

DecodeAction ==
  /\ event.name \in { "opcodes", "decode" }
  /\ event' = [event EXCEPT !.name = "decode",
                            !.mnemonic = Decode(event.op0, event.op1)]
  /\ UNCHANGED << chip8, started, executionInterval, orphans, loads >>

NextDecode == DecodeAction

SpecDecode == InitDecode /\ [][NextDecode]_vars

\* --------------------------------------------------- continuous execution
\* the image of test_rnd_draw: RND V1,0x0F ; LD V2,0x0B ; LD V3,V2 ; sixteen
\* pairs SNE V1,k ; LD I,0x50 + 5 * k ; DRW V2,V3,5 ; JP 0x24C at 0x24C
TestRndDraw ==
  << \h61, \h01, \hc1, \h0f, \h62, \h0b, \h83, \h20, \ha0, \h82, \h41, \h00,
     \ha0, \h50, \h41, \h01, \ha0, \h55, \h41, \h02, \ha0, \h5a, \h41, \h03,
     \ha0, \h5f, \h41, \h04, \ha0, \h64, \h41, \h05, \ha0, \h69, \h41, \h06,
     \ha0, \h6e, \h41, \h07, \ha0, \h73, \h41, \h08, \ha0, \h78, \h41, \h09,
     \ha0, \h7d, \h41, \h0a, \ha0, \h82, \h41, \h0b, \ha0, \h87, \h41, \h0c,
     \ha0, \h8c, \h41, \h0d, \ha0, \h91, \h41, \h0e, \ha0, \h96, \h41, \h0f,
     \ha0, \h9b, \hd2, \h35, \h12, \h4c >>

\* an image of 3580 bytes: LD V0,0 at 0x200, then SE V0,V0 in every second
\* word up to 0xFFA and 0000 in the words they skip
LastSkipRom ==
  [i \in 1..(MemSize - Entrypoint - 4) |->
     IF i = 1 THEN \h60
     ELSE IF i % 4 = 3 THEN \h50 ELSE \h00]

\* the state after loadROM(rom) on a new machine and a click on start
Started(rom) ==
  /\ chip8 = [LoadROM(NewChip8, rom).m EXCEPT !.halt = FALSE]
  /\ started = TRUE
  /\ executionInterval = "live"
  /\ orphans = 0
  /\ loads = 1
  /\ event = NoFetch("continueExecution", FALSE)

\* test_rnd_draw under the timer of continueExecution(); setInterval calls
\* its callback again and again
InitRndDraw == Started(TestRndDraw)

NextRndDraw == Tick

SpecRndDraw == InitRndDraw /\ [][NextRndDraw]_vars /\ WF_vars(Tick)

\* the image has no JP (1nnn, Bnnn), CALL (2nnn) or RET (00EE) word
JumpFree(rom) ==
  \A k \in 1..((Len(rom) + 1) \div 2) :
    LET b0 == rom[2 * k - 1]
        b1 == IF 2 * k <= Len(rom) THEN rom[2 * k] ELSE 0
    IN /\ b0 \div 16 \notin { \h1, \h2, \hb }
       /\ ~(b0 = \h00 /\ b1 = \hee)

\* images of at most 3580 bytes without JP, CALL and RET
RunRoms ==
  { rom \in Roms \cup { LastSkipRom } :
      Len(rom) <= MemSize - Entrypoint - 4 /\ JumpFree(rom) }

\* a jump-free image under the timer of continueExecution()
InitRun == \E rom \in RunRoms : Started(rom)

NextRun == Tick

SpecRun == InitRun /\ [][NextRun]_vars /\ WF_vars(Tick)

\* ------------------------------------------------- unsupported encodings
\* 5xyN and 9xyN with N # 0, 8xy8..8xyD and 8xyF, Exxx and Fxxx
Unsupported(b0, b1) ==
  \/ b0 \div 16 \in { \h5, \h9 } /\ b1 % 16 # 0
  \/ b0 \div 16 = \h8 /\ b1 % 16 \in (\h8..\hd) \cup { \hf }
  \/ b0 \div 16 \in { \he, \hf }

UnsupportedWords ==
  { w \in (0..255) \X (0..255) : Unsupported(w[1], w[2]) }

\* execute() applied by stepInstruction() to each unsupported word at 0x200
InitInvalid ==
  /\ chip8 \in { SetUp(w, [i \in 0..15 |-> 0]) : w \in UnsupportedWords }
  /\ started = TRUE
  /\ executionInterval = "none"
  /\ orphans = 0
  /\ loads = 0
  /\ event = NoFetch("loadROM", FALSE)

NextInvalid == StepInstruction

SpecInvalid == InitInvalid /\ [][NextInvalid]_vars


\* ================================================================= claims
\* the registers, stack and framebuffer of two machine records agree
SameData(a, b) ==
  /\ a.V = b.V /\ a.I = b.I /\ a.SP = b.SP /\ a.stack = b.stack
  /\ a.memory = b.memory /\ a.frameBuffer = b.frameBuffer

\* the byte pair encodes an explicit destination register Vx:
\* 6xkk 7xkk Cxkk 8xy0..8xy7 8xyE
HasDestinationVx(op0, op1) ==
  /\ op0 \in 0..255 /\ op1 \in 0..255
  /\ \/ op0 \div 16 \in { \h6, \h7, \hc }
     \/ op0 \div 16 = \h8 /\ op1 % 16 \in (0..7) \cup { \he }

\* the byte pair is 0nnn other than 00E0, 00EE and 0000
IsSysWord(op0, op1) ==
  /\ op0 \in 0..15 /\ op1 \in 0..255
  /\ ~(op0 = 0 /\ op1 \in { \he0, \hee, \h00 })

\* the fetched instruction e meets, in the machine m it was fetched on, one
\* of the fatal conditions: jump or call into the reserved region, call
\* with a full stack, return with an empty stack, write to VF,
\* unrecognized opcode, terminator
FatalCondition(m, e) ==
  \/ e.mnemonic \in { "INVALID", "ZERO" }
  \/ e.mnemonic \in { "JP", "CALL" } /\ JsLess(Addr(e.op0, e.op1), Entrypoint)
  \/ e.mnemonic = "CALL" /\ m.SP >= StackSize
  \/ e.mnemonic = "RET" /\ m.SP = 0
  \/ HasDestinationVx(e.op0, e.op1) /\ e.op0 % 16 = \hf

\* C1: a CALL that succeeded at address a, followed at once by a RET, leaves
\* PC = a + 2 and SP as it was before the CALL (nested calls included).
C1_CallThenRetReturns ==
  [][ ( /\ event.fetched /\ event.mnemonic = "CALL" /\ ~event.threw
        /\ event'.fetched /\ event'.mnemonic = "RET" )
      => ( chip8'.PC = event.addr + 2 /\ chip8'.SP = event.sp ) ]_vars

\* C2: SP stays in 0..16; a CALL with SP < 16 to an address >= 0x200
\* succeeds and pushes; a CALL with SP = 16 is fatal and leaves SP and the
\* stack as they were; a RET with SP = 0 is fatal and leaves SP = 0.
C2_StackPointerBounds ==
  [][ /\ chip8'.SP \in 0..StackSize
      /\ ( event'.fetched /\ event'.mnemonic = "CALL" /\ chip8.SP < StackSize
           /\ JsGeq(Addr(event'.op0, event'.op1), Entrypoint) )
         => ( ~chip8'.panicState /\ chip8'.SP = chip8.SP + 1 )
      /\ ( event'.fetched /\ event'.mnemonic = "CALL" /\ chip8.SP = StackSize )
         => ( chip8'.panicState /\ chip8'.SP = StackSize
              /\ chip8'.stack = chip8.stack )
      /\ ( event'.fetched /\ event'.mnemonic = "RET" /\ chip8.SP = 0 )
         => ( chip8'.panicState /\ chip8'.SP = 0 ) ]_vars

\* C2 witness: the 17th CALL has just been refused with SP = 16
C2_Witness ==
  /\ event.fetched /\ event.mnemonic = "CALL" /\ event.threw
  /\ event.sp = StackSize /\ chip8.SP = StackSize /\ chip8.panicState

\* C3: PC is in 0..0xFFF in every state, and every fetch is at an address
\* <= 0xFFE.
C3_PCInsideMemory ==
  /\ chip8.PC \in 0..(MemSize - 1)
  /\ event.fetched => event.addr \in 0..(MemSize - 2)

\* C4: an instruction with an explicit destination register and x = 0xF,
\* executed on a running machine, panics and leaves V0..VF as they were.
C4_VFIsNoDestination ==
  [][ ( /\ event'.fetched
        /\ HasDestinationVx(event'.op0, event'.op1)
        /\ event'.op0 % 16 = \hf )
      => ( chip8'.panicState /\ chip8'.V = chip8.V ) ]_vars

\* C4 witness: ADD VF,Vy was refused on a machine whose VF holds 1
C4_Witness ==
  /\ event.fetched /\ event.op0 = \h8f /\ event.op1 % 16 = \h4
  /\ chip8.panicState /\ chip8.V[\hf] = 1 /\ chip8.V[1] = \h81

\* C5: a step that meets a fatal condition leaves the registers, stack,
\* memory and framebuffer as they were, PC at the faulting instruction, and
\* the machine Panicked and Halted.
C5_FatalStepIsAtomic ==
  [][ ( event'.fetched /\ FatalCondition(chip8, event') )
      => ( /\ SameData(chip8', chip8)
           /\ chip8'.PC = event'.addr
           /\ chip8'.panicState /\ chip8'.halt ) ]_vars

\* C6: a Panicked machine is Halted.
C6_PanickedIsHalted == chip8.panicState => chip8.halt

\* C7: once Panicked the machine stays Panicked, and no step, start /
\* continue or stop request (nor a timer callback) changes PC, V0..VF, I,
\* SP, the stack or the framebuffer.
C7_PanickedIsTerminal ==
  [][ chip8.panicState
      => ( /\ chip8'.panicState
           /\ chip8'.PC = chip8.PC
           /\ SameData(chip8', chip8) ) ]_vars

\* C7 witness: a continue request and a timer callback have acted on a
\* Panicked machine
C7_Witness ==
  /\ chip8.panicState /\ ~chip8.halt /\ event.name = "tick"

\* instructions that neither transfer control nor skip
Sequential ==
  { "CLS", "LD", "ADD", "OR", "AND", "XOR", "SUB", "SHR", "SUBN", "SHL",
    "RND", "DRW" }

\* C8: execute() called (by a timer callback, or by stepInstruction on a
\* Panicked machine) while Halted or Panicked fetches nothing and changes
\* nothing; called while Running it fetches the instruction at PC and
\* executes that one instruction (PC moves on by 2 when it is sequential).
C8_ExecuteWhenHaltedIsNoOp ==
  [][ /\ ( event'.name = "tick" /\ (chip8.halt \/ chip8.panicState) )
         => ( chip8' = chip8 /\ ~event'.fetched )
      /\ ( event'.name = "stepInstruction" /\ chip8.panicState )
         => ( chip8' = [chip8 EXCEPT !.halt = TRUE] /\ ~event'.fetched )
      /\ ( event'.name = "stepInstruction" /\ ~chip8.panicState )
         => ( event'.fetched /\ event'.addr = chip8.PC )
      /\ ( event'.name = "tick" /\ ~chip8.halt /\ ~chip8.panicState )
         => ( /\ event'.fetched /\ event'.addr = chip8.PC
              /\ ( event'.mnemonic \in Sequential /\ ~event'.threw )
                 => ( chip8'.PC = JsInc(chip8.PC, 2) /\ ~chip8'.halt
                      /\ ~chip8'.panicState ) ) ]_vars

\* C8 witness: a timer callback ran on a machine that a single step had
\* left Halted, not Panicked
C8_Witness ==
  /\ event.name = "tick" /\ ~event.fetched
  /\ chip8.halt /\ ~chip8.panicState /\ chip8.PC > Entrypoint

\* C9: 0nnn other than 00E0, 00EE, 0000 decodes to SYS, and executing it
\* moves PC on by 2 without a panic.
C9_SysIsNoOp ==
  ( event.fetched /\ IsSysWord(event.op0, event.op1) )
  => ( /\ event.mnemonic = "SYS"
       /\ ~chip8.panicState
       /\ chip8.PC = event.addr + 2 )

\* C10: the terminator 0000 fetched at address a leaves the machine Halted
\* and Panicked with PC = a; a step request on a machine that is Halted and
\* Panicked changes nothing, so PC stays at a however often it is repeated.
C10_TerminatorIsIdempotent ==
  [][ /\ ( event'.fetched /\ event'.mnemonic = "ZERO" )
         => ( /\ chip8'.halt /\ chip8'.panicState
              /\ chip8'.PC = event'.addr /\ SameData(chip8', chip8) )
      /\ ( chip8.panicState /\ chip8.halt /\ event'.name = "stepInstruction" )
         => ( /\ chip8' = chip8
              /\ UNCHANGED << started, executionInterval, orphans, loads >> )
    ]_vars

\* C10 witness: a step request was made on a machine stopped at a
\* terminator, after a program that ran at least one instruction
C10_Witness ==
  /\ event.name = "stepInstruction" /\ ~event.fetched
  /\ chip8.panicState /\ chip8.halt
  /\ chip8.PC > Entrypoint
  /\ ReadMem(chip8.memory, chip8.PC) = 0
  /\ ReadMem(chip8.memory, chip8.PC + 1) = 0

\* the fixed set of classifications: the supported mnemonics, the
\* terminator and unrecognized
Mnemonics ==
  { "SYS", "CLS", "RET", "JP", "CALL", "SE", "SNE", "LD", "ADD", "OR", "AND",
    "XOR", "SUB", "SHR", "SUBN", "SHL", "RND", "DRW", "ZERO", "INVALID" }

\* C11: decode applied to any pair of bytes returns one mnemonic of the
\* fixed set, the same one when it is applied again, and leaves the machine
\* as it was.
C11_DecodeIsTotal ==
  [][ event'.name = "decode"
      => ( /\ event'.mnemonic \in Mnemonics
           /\ event'.mnemonic = Decode(event.op0, event.op1)
           /\ event.name = "decode" => event'.mnemonic = event.mnemonic
           /\ event'.op0 = event.op0 /\ event'.op1 = event.op1
           /\ chip8' = chip8 ) ]_vars

\* C11 witness: a pair that matches no case was decoded
C11_Witness ==
  /\ event.name = "decode" /\ event.op0 = \hff /\ event.op1 = \hff
  /\ event.mnemonic = "INVALID"

\* the 12-bit operand nnn of the fetched word of e
Nnn(e) == (e.op0 % 16) * 256 + e.op1

\* the fetched word of e has the leading hexadecimal digit d
Leads(e, d) == e.fetched /\ e.op0 \in 0..255 /\ e.op1 \in 0..255 /\ e.op0 \div 16 = d

\* C12: JP nnn (1nnn) or CALL nnn (2nnn) with nnn < 0x200, executed on a
\* running machine whatever its registers hold, leaves the machine Panicked
\* and PC different from nnn.
C12_ReservedTargetIsFatal ==
  [][ ( (Leads(event', \h1) \/ Leads(event', \h2)) /\ Nnn(event') < Entrypoint )
      => ( chip8'.panicState /\ chip8'.PC # Nnn(event') ) ]_vars

\* C12 witness: JP 0x1FF was refused on a machine with non-zero registers
C12_Witness ==
  /\ Leads(event, \h1) /\ Nnn(event) = \h1ff
  /\ chip8.panicState /\ chip8.PC = Entrypoint
  /\ chip8.V[0] = \hff /\ chip8.V[\hf] = 1

\* C13: after JP V0,nnn (Bnnn) the machine is Panicked, or PC = nnn + V0
\* and 0x200 <= PC < 0x1000.
C13_JumpV0TargetIsValidated ==
  [][ Leads(event', \hb)
      => \/ chip8'.panicState
         \/ /\ chip8'.PC = Nnn(event') + chip8.V[0]
            /\ chip8'.PC \in Entrypoint..(MemSize - 1) ]_vars

\* the fetched word of e is 8xyn with x # 0xF
Is8xyN(e, n) == Leads(e, \h8) /\ e.op1 % 16 = n /\ e.op0 % 16 # \hf

\* the x and y nibbles of the fetched word of e
X(e) == e.op0 % 16
Y(e) == e.op1 \div 16

\* C14: ADD Vx,Vy (8xy4, x # 0xF) leaves Vx = (old Vx + old Vy) mod 256 and
\* VF = 1 if old Vx + old Vy > 255, else 0.
C14_AddCarries ==
  [][ Is8xyN(event', 4)
      => LET sum == chip8.V[X(event')] + chip8.V[Y(event')] IN
         /\ chip8'.V[X(event')] = sum % 256
         /\ chip8'.V[\hf] = IF sum > 255 THEN 1 ELSE 0 ]_vars

\* C14 witness: ADD V0,V1 ran with V0 = 0xFF, V1 = 0x01 and VF = 0
C14_Witness ==
  /\ Is8xyN(event, 4) /\ X(event) = 0 /\ Y(event) = 1 /\ ~event.threw
  /\ chip8.V[0] = 0 /\ chip8.V[1] = 1 /\ chip8.V[\hf] = 1
  /\ chip8.V[\he] = \h80

\* C15: SUB Vx,Vy (8xy5) leaves VF = 1 iff old Vx > old Vy and
\* Vx = (old Vx - old Vy) mod 256; SUBN Vx,Vy (8xy7) leaves VF = 1 iff
\* old Vy > old Vx and Vx = (old Vy - old Vx) mod 256; x # 0xF, any y.
C15_SubUsesOldOperands ==
  [][ /\ Is8xyN(event', 5)
         => LET vx == chip8.V[X(event')]
                vy == chip8.V[Y(event')] IN
            /\ chip8'.V[\hf] = IF vx > vy THEN 1 ELSE 0
            /\ chip8'.V[X(event')] = (vx - vy) % 256
      /\ Is8xyN(event', 7)
         => LET vx == chip8.V[X(event')]
                vy == chip8.V[Y(event')] IN
            /\ chip8'.V[\hf] = IF vy > vx THEN 1 ELSE 0
            /\ chip8'.V[X(event')] = (vy - vx) % 256 ]_vars

\* C16 as stated: SHR Vx (8xy6) leaves VF = old Vx mod 2 and
\* Vx = floor(old Vx / 2); SHL Vx (8xyE) leaves VF = the top bit of old Vx
\* and Vx = (2 * old Vx) mod 256; Vy is unchanged, for every y.
C16_ShiftLeavesVy ==
  [][ /\ Is8xyN(event', 6)
         => /\ chip8'.V[\hf] = chip8.V[X(event')] % 2
            /\ chip8'.V[X(event')] = chip8.V[X(event')] \div 2
            /\ chip8'.V[Y(event')] = chip8.V[Y(event')]
      /\ Is8xyN(event', \he)
         => /\ chip8'.V[\hf] = chip8.V[X(event')] \div 128
            /\ chip8'.V[X(event')] = (2 * chip8.V[X(event')]) % 256
            /\ chip8'.V[Y(event')] = chip8.V[Y(event')] ]_vars

\* C16 amended: as C16, with every register other than Vx and VF unchanged
\* (so Vy is unchanged when y is neither x nor 0xF).
C16_ShiftCapturesBit ==
  [][ /\ Is8xyN(event', 6)
         => /\ chip8'.V[\hf] = chip8.V[X(event')] % 2
            /\ chip8'.V[X(event')] = chip8.V[X(event')] \div 2
            /\ \A i \in (0..14) \ {X(event')} : chip8'.V[i] = chip8.V[i]
      /\ Is8xyN(event', \he)
         => /\ chip8'.V[\hf] = chip8.V[X(event')] \div 128
            /\ chip8'.V[X(event')] = (2 * chip8.V[X(event')]) % 256
            /\ \A i \in (0..14) \ {X(event')} : chip8'.V[i] = chip8.V[i] ]_vars

\* C16 witness: SHR VE,V0 ran with VE = 0xFF and V0 = 0x80
C16_Witness ==
  /\ Is8xyN(event, 6) /\ X(event) = \he /\ Y(event) = 0 /\ ~event.threw
  /\ chip8.V[\he] = \h7f /\ chip8.V[\hf] = 1 /\ chip8.V[0] = \h80

\* the machine is not Panicked and the word at PC is Cxkk with x # 0xF
AtRnd ==
  /\ ~chip8.panicState
  /\ chip8.PC \in 0..(MemSize - 2)
  /\ ReadMem(chip8.memory, chip8.PC) \div 16 = \hc
  /\ ReadMem(chip8.memory, chip8.PC) % 16 # \hf

\* C17: the set of values Vx can hold after stepInstruction() executes
\* RND Vx,kk is exactly { r AND kk : r in 0..255 }.
C17_RndCoversEveryByte ==
  AtRnd
  => LET x == ReadMem(chip8.memory, chip8.PC) % 16
         kk == ReadMem(chip8.memory, chip8.PC + 1)
         m == [chip8 EXCEPT !.halt = FALSE]
     IN { Execute(m, q).m.V[x] : q \in RandomFor(m) }
          = { And(r, kk) : r \in 0..255 }

\* C18: LD Vx,kk (6xkk, x # 0xF) sets Vx = kk, moves PC on by 2 and leaves
\* every other register, I, SP, the stack, memory and the framebuffer as
\* they were.
C18_LoadImmediateFrame ==
  [][ ( Leads(event', \h6) /\ X(event') # \hf )
      => ( /\ chip8'.V = [chip8.V EXCEPT ![X(event')] = event'.op1]
           /\ chip8'.PC = event'.addr + 2
           /\ chip8'.I = chip8.I /\ chip8'.SP = chip8.SP
           /\ chip8'.stack = chip8.stack
           /\ chip8'.memory = chip8.memory
           /\ chip8'.frameBuffer = chip8.frameBuffer
           /\ ~chip8'.panicState ) ]_vars

\* C18 witness: LD VE,0x80 ran on a machine whose other registers are set
C18_Witness ==
  /\ Leads(event, \h6) /\ X(event) = \he /\ event.op1 = \h80
  /\ chip8.V[\he] = \h80 /\ chip8.V[0] = \hff /\ chip8.V[1] = \h01
  /\ chip8.V[\hf] = 1 /\ chip8.PC = Entrypoint + 2

\* the fetched word of e is a skip instruction: 3xkk, 4xkk, 5xy0 or 9xy0
IsSkip(e) ==
  \/ Leads(e, \h3) \/ Leads(e, \h4)
  \/ (Leads(e, \h5) \/ Leads(e, \h9)) /\ e.op1 % 16 = 0

\* the condition under which the skip instruction of e skips on V
SkipCondition(e, V) ==
  \/ Leads(e, \h3) /\ V[X(e)] = e.op1
  \/ Leads(e, \h4) /\ V[X(e)] # e.op1
  \/ Leads(e, \h5) /\ V[X(e)] = V[Y(e)]
  \/ Leads(e, \h9) /\ V[X(e)] # V[Y(e)]

\* C19: a skip instruction at address a leaves PC = a + 4 when its condition
\* holds (operands equal for SE, different for SNE) and PC = a + 2
\* otherwise, and changes no register, nor the stack, memory or framebuffer.
C19_SkipAdvancesPC ==
  [][ IsSkip(event')
      => ( /\ chip8'.PC = IF SkipCondition(event', chip8.V)
                          THEN event'.addr + 4 ELSE event'.addr + 2
           /\ SameData(chip8', chip8)
           /\ ~chip8'.panicState ) ]_vars

\* C19 witness: SNE V0,0x80 skipped with V0 = 0xFF
C19_Witness ==
  /\ Leads(event, \h4) /\ X(event) = 0 /\ event.op1 = \h80
  /\ chip8.V[0] = \hff /\ chip8.PC = Entrypoint + 4

\* bit k of the byte b
Bit(b, k) == (b \div (2 ^ k)) % 2

\* the pixel at index p of the framebuffer fb
Pixel(fb, p) == IF p \in fb THEN 1 ELSE 0

C22_ClsClearsEveryPixel ==
  [][ ( event'.fetched /\ event'.op0 = \h00 /\ event'.op1 = \he0 )
      => ( /\ \A p \in 0..2047 : Pixel(chip8'.frameBuffer, p) = 0
           /\ chip8'.frameBuffer \subseteq 0..2047
           /\ chip8'.PC = event'.addr + 2
           /\ chip8'.V = chip8.V /\ chip8'.I = chip8.I
           /\ chip8'.SP = chip8.SP /\ chip8'.stack = chip8.stack
           /\ chip8'.memory = chip8.memory ) ]_vars

\* C22 witness: CLS ran right after the font sprite "0" had been drawn
C22_Witness ==
  /\ event.fetched /\ event.op0 = \h00 /\ event.op1 = \he0
  /\ event.addr = Entrypoint + 4 /\ chip8.I = FontBase
  /\ ReadMem(chip8.memory, Entrypoint + 2) = \hd0
  /\ chip8.frameBuffer = {}

\* C23: loadROM(image) with at most 3584 bytes, whatever the memory held,
\* leaves memory[0x200 + i] = image[i], every other cell of 0x200..0xFFF 0,
\* and the cells 0x000..0x1FF as they were.
C23_LoadReplacesProgram ==
  [][ ( event'.name = "loadROM" /\ Len(event'.rom) <= 3584 )
      => ( /\ ~event'.threw
           /\ \A a \in 0..4095 :
                ReadMem(chip8'.memory, a) =
                  IF a < 512 THEN ReadMem(chip8.memory, a)
                  ELSE IF a - 512 < Len(event'.rom) THEN event'.rom[a - 512 + 1]
                  ELSE 0 ) ]_vars

\* C23 witness: a short image was loaded; the state is the same whichever
\* earlier image, full-size ones included, the memory held
C23_Witness ==
  /\ event.name = "loadROM" /\ event.rom = TestGeneric
  /\ loads = 1
  /\ ReadMem(chip8.memory, \h200) = \h64
  /\ ReadMem(chip8.memory, \h206) = 0
  /\ ReadMem(chip8.memory, FontBase) = \hf0

\* C24: loadROM(image) with more than 3584 bytes does not fail and leaves
\* the first 3584 bytes of the image in memory 0x200..0xFFF.
C24_LongImageIsTruncated ==
  [][ ( event'.name = "loadROM" /\ Len(event'.rom) > 3584 )
      => ( /\ ~event'.threw
           /\ \A i \in 0..3583 :
                ReadMem(chip8'.memory, 512 + i) = event'.rom[i + 1] ) ]_vars

\* C25: no executed instruction changes a memory cell, and the 80 bytes at
\* 0x50..0x9F hold the glyph table, the glyph of digit d at 0x50 + 5 * d,
\* after any image loads and steps.
C25_MemoryIsReadOnly ==
  [][ /\ event'.name # "loadROM" => chip8'.memory = chip8.memory
      /\ \A d \in 0..15, k \in 0..4 :
           ReadMem(chip8'.memory, 80 + 5 * d + k) = FontTable[5 * d + k + 1]
    ]_vars

\* C25 witness: a step on a loaded program ended in a panic
C25_Witness ==
  /\ event.name = "stepInstruction" /\ event.fetched /\ event.threw
  /\ chip8.panicState /\ loads = 1
  /\ ReadMem(chip8.memory, Entrypoint) = \h60
  /\ ReadMem(chip8.memory, FontBase + 5 * \hf + 4) = \h80

\* the fetched word of e is one of the instructions that set a flag:
\* ADD Vx,Vy, SUB, SHR, SUBN, SHL, DRW
FlagWord(e) ==
  \/ Leads(e, \h8) /\ e.op1 % 16 \in { \h4, \h5, \h6, \h7, \he }
  \/ Leads(e, \hd)

\* C26: an executed instruction other than ADD Vx,Vy, SUB, SUBN, SHR, SHL
\* and DRW leaves VF as it was.
C26_OnlyFlagWordsChangeVF ==
  [][ ( event'.fetched /\ ~FlagWord(event') )
      => chip8'.V[\hf] = chip8.V[\hf] ]_vars

\* C26 witness: OR VF,V0 was executed with VF = 1 and V0 = 0xFE
C26_Witness ==
  /\ event.fetched /\ event.op0 = \h8f /\ event.op1 = \h01
  /\ chip8.V[\hf] = 1 /\ chip8.V[0] = \hfe

\* C29: each of V0..VF is in 0..255, I is in 0..0xFFF and every stack entry
\* is in 0..0xFFFF.
C29_RegisterWidths ==
  /\ \A i \in 0..15 : chip8.V[i] \in 0..255
  /\ chip8.I \in 0..4095
  /\ \A i \in 0..15 : chip8.stack[i] \in 0..65535

\* the number of intervals set and not cleared
LiveTimers == (IF executionInterval = "live" THEN 1 ELSE 0) + orphans

\* C30: at most one execution timer is live, and a stop request leaves
\* none live.
C30_OneLiveTimer ==
  /\ LiveTimers <= 1
  /\ event.name = "stopExecution" => LiveTimers = 0

\* ----------------------------------------------------------------- C27
\* the number a sequence of hexadecimal digits denotes
ParseHex(ds) ==
  IF Len(ds) = 0 THEN 0
  ELSE IF Len(ds) = 1 THEN ds[1]
  ELSE IF Len(ds) = 2 THEN ds[1] * 16 + ds[2]
  ELSE IF Len(ds) = 3 THEN ds[1] * 256 + ds[2] * 16 + ds[3]
  ELSE ds[1] * 4096 + ds[2] * 256 + ds[3] * 16 + ds[4]

\* the first 2-byte-aligned address from 0x200 whose two bytes are 0x00 0x00,
\* or the address after 0xFFE when there is none
FirstTerminator(m) ==
  LET IsTerminator(a) ==
        a = MemSize
        \/ (ReadMem(m.memory, a) = 0 /\ ReadMem(m.memory, a + 1) = 0)
      k == CHOOSE k \in 0..DisasmCount :
             IsTerminator(DisasmAddr(k))
             /\ \A j \in 0..(k - 1) : ~IsTerminator(DisasmAddr(j))
  IN DisasmAddr(k)

\* C27: the disassembly consists of exactly one complete line for each
\* 2-byte-aligned address from 0x200 up to, and not including, the first
\* address holding 0x00 0x00 (or up to 0xFFE when there is none), in address
\* order: nothing is emitted for the terminator or for any later address.
C27_OneLinePerAddress ==
  LET out == FormatDisassembly(chip8)
      n == (FirstTerminator(chip8) - Entrypoint) \div 2
  IN /\ Len(out) = n
     /\ \A k \in 1..Len(out) :
          /\ ParseHex(out[k].addr) = Entrypoint + 2 * (k - 1)
          /\ out[k].body.newline

\* ----------------------------------------------------------------- C28
\* the mnemonics of the instruction table: every classification but the
\* terminator and unrecognized
Supported == Mnemonics \ { "ZERO", "INVALID" }

\* the bytes a disassembled line stands for: the family from the mnemonic
\* and the kinds of its operands, the fields from the operands' digits
Encode(b) ==
  LET o == b.operands
      kinds == [k \in 1..Len(o) |-> o[k].prefix]
      val(k) == ParseHex(o[k].digits)
      xkk(family) == << family + val(1), val(2) >>
      xy(family, low) == << family + val(1), val(2) * 16 + low >>
      nnn(family, k) == << family + (val(k) \div 256), val(k) % 256 >>
      mn == b.mnemonic
  IN
  IF mn = "CLS" /\ kinds = << >> THEN << \h00, \he0 >>
  ELSE IF mn = "RET" /\ kinds = << >> THEN << \h00, \hee >>
  ELSE IF mn = "JP" /\ kinds = << "0x" >> THEN nnn(\h10, 1)
  ELSE IF mn = "JP" /\ kinds = << "v", "0x" >> /\ val(1) = 0
    THEN nnn(\hb0, 2)
  ELSE IF mn = "CALL" /\ kinds = << "0x" >> THEN nnn(\h20, 1)
  ELSE IF mn = "LD" /\ kinds = << "I", "0x" >> THEN nnn(\ha0, 2)
  ELSE IF mn = "DRW" /\ kinds = << "v", "v", "0x" >>
    THEN << \hd0 + val(1), val(2) * 16 + val(3) >>
  ELSE IF kinds = << "v", "0x" >> THEN
    IF mn = "SE" THEN xkk(\h30)
    ELSE IF mn = "SNE" THEN xkk(\h40)
    ELSE IF mn = "LD" THEN xkk(\h60)
    ELSE IF mn = "ADD" THEN xkk(\h70)
    ELSE IF mn = "RND" THEN xkk(\hc0)
    ELSE << >>
  ELSE IF kinds = << "v", "v" >> THEN
    IF mn = "SE" THEN xy(\h50, \h0)
    ELSE IF mn = "SNE" THEN xy(\h90, \h0)
    ELSE IF mn = "LD" THEN xy(\h80, \h0)
    ELSE IF mn = "OR" THEN xy(\h80, \h1)
    ELSE IF mn = "AND" THEN xy(\h80, \h2)
    ELSE IF mn = "XOR" THEN xy(\h80, \h3)
    ELSE IF mn = "ADD" THEN xy(\h80, \h4)
    ELSE IF mn = "SUB" THEN xy(\h80, \h5)
    ELSE IF mn = "SHR" THEN xy(\h80, \h6)
    ELSE IF mn = "SUBN" THEN xy(\h80, \h7)
    ELSE IF mn = "SHL" THEN xy(\h80, \he)
    ELSE << >>
  ELSE << >>

\* C28: for every pair of bytes that decodes to a supported mnemonic, the
\* disassembled line names that mnemonic, and encoding the line again
\* gives the pair of bytes back (its operands are the fields x, y, kk, nnn
\* and n of the bytes).
C28_DisassemblyRoundTrips ==
  (event.name = "decode" /\ event.mnemonic \in Supported)
    => LET line == DisasmBody(event.mnemonic, event.op0, event.op1)
       IN /\ line.mnemonic = event.mnemonic
          /\ Encode(line) = << event.op0, event.op1 >>

\* ----------------------------------------------------------------- C31
\* C31: after stopExecution(), the callback of a timer that is still alive
\* fetches nothing and leaves the machine (PC, registers, stack, framebuffer)
\* as it is, and so does every callback after one that fetched nothing:
\* nothing executes until the next step or continue request.
C31_StoppedStaysStopped ==
  [][ (/\ event'.name = "tick"
       /\ \/ event.name = "stopExecution"
          \/ (event.name = "tick" /\ ~event.fetched))
      => (~event'.fetched /\ chip8' = chip8) ]_vars

\* a timer whose id was lost has fired after a stop request
C31_Witness ==
  /\ event.name = "tick" /\ ~event.fetched
  /\ orphans > 0 /\ executionInterval = "none"
  /\ chip8.halt /\ ~chip8.panicState
  /\ JsLess(chip8.PC, TimerStopPC)
  /\ Decode(ReadMem(chip8.memory, chip8.PC),
            ReadMem(chip8.memory, chip8.PC + 1)) \notin { "ZERO", "INVALID" }

\* ----------------------------------------------------------------- C32
\* C32: stepInstruction() on a machine that is not panicked fetches and
\* executes one instruction and leaves the machine halted, and the callback
\* of a live timer that fires after it fetches nothing.
C32_StepExecutesOneAndHalts ==
  [][ /\ (event'.name = "stepInstruction" /\ ~chip8.panicState)
         => (event'.fetched /\ chip8'.halt)
      /\ (event.name = "stepInstruction" /\ ~event.threw
          /\ event'.name = "tick")
         => ~event'.fetched ]_vars

\* ----------------------------------------------------------------- C33
\* C33: the callback of an execution timer never fetches an instruction at
\* an address of 0xFFF or above, whatever start, stop, continue and step
\* requests came before it.
C33_TimerFetchesInsideMemory ==
  [][ (event'.name = "tick" /\ event'.fetched)
      => JsLess(event'.addr, TimerStopPC) ]_vars

\* ----------------------------------------------------------------- C35
\* the framebuffer indices lit by the 5-row sprite at memory address a drawn
\* with its top-left corner at column x, row y of the 64 x 32 display
Glyph(mem, a, x, y) ==
  { (y + ic[1]) * 64 + x + ic[2] :
      ic \in { p \in (0..4) \X (0..7) : Bit(ReadMem(mem, a + p[1]), 7 - p[2]) = 1 } }

\* test_rnd_draw is at its final self-jump
AtSelfJump == chip8.PC = \h24c

\* C35: test_rnd_draw on a new machine never meets a fatal condition and
\* reaches the self-jump at 0x24C; whenever it is there, V1 is in 0..15,
\* I = 0x50 + 5 * V1, the framebuffer holds exactly the glyph of digit V1 with
\* its top-left corner at x = 11, y = 11, and VF = 0.
C35_RndDrawDrawsGlyph ==
  /\ [](/\ ~chip8.panicState
        /\ AtSelfJump =>
             /\ chip8.V[1] \in 0..15
             /\ chip8.I = FontBase + 5 * chip8.V[1]
             /\ chip8.frameBuffer =
                  Glyph(chip8.memory, FontBase + 5 * chip8.V[1], 11, 11)
             /\ chip8.V[\hf] = 0)
  /\ <>AtSelfJump

\* the self-jump was executed after the glyph of digit 0xA was drawn
C35_Witness ==
  /\ AtSelfJump /\ event.mnemonic = "JP" /\ event.addr = \h24c
  /\ chip8.V[1] = \ha /\ chip8.I = \h82
  /\ Cardinality(chip8.frameBuffer) = 14

\* ----------------------------------------------------------------- C34
\* C34: continuous execution of an image of at most 3580 bytes without JP,
\* CALL and RET, from PC = 0x200 and with a timer that keeps firing,
\* eventually leaves the machine halted (by the terminator or by an earlier
\* fatal condition) with PC <= 0xFFE.
\* As a decreasing measure: while the machine is not halted the timer
\* is alive and PC <= 0xFFE, and every callback either halts the machine or
\* moves PC up, still with PC <= 0xFFE; a timer that keeps firing can move PC
\* up only finitely often.
C34_JumpFreeRunTerminates ==
  /\ [](~chip8.halt =>
          (executionInterval = "live" /\ JsLess(chip8.PC, TimerStopPC)))
  /\ [][ ~chip8.halt =>
           /\ event'.name = "tick" /\ event'.fetched
           /\ JsLess(chip8'.PC, TimerStopPC)
           /\ chip8'.halt \/ chip8'.PC > chip8.PC ]_vars

\* the 3580-byte image ran to its last word, SE V0,0 at 0xFFA, which skipped
\* to the terminator in the last word of the memory
C34_Witness ==
  /\ chip8.halt /\ chip8.PC = \hffe
  /\ event.name = "tick" /\ event.mnemonic = "ZERO" /\ event.addr = \hffe

\* ----------------------------------------------------------------- C36
\* the slot i of the stack holds a return address stored by a CALL: the
\* constructor fills the stack with zeroes and a CALL stores the address
\* after its own, which is 0x202 or more
WrittenByCall(stk, i) == i \in 0..(StackSize - 1) /\ stk[i] >= Entrypoint + 2

\* C36: a CALL that succeeds writes the slot stack[SP], with an index in
\* 0..15, and a RET that succeeds reads the slot stack[SP], with an index in
\* 0..15 and written by a CALL before, also after 16 nested CALLs.
C36_StackSlotsInRange ==
  [][ /\ (event'.fetched /\ event'.mnemonic = "CALL" /\ ~event'.threw)
         => /\ event'.sp \in 0..(StackSize - 1)
            /\ chip8'.stack[event'.sp] = event'.addr + 2
      /\ (event'.fetched /\ event'.mnemonic = "RET" /\ ~event'.threw)
         => /\ event'.sp \in 0..(StackSize - 1)
            /\ WrittenByCall(chip8.stack, event'.sp) ]_vars

\* ----------------------------------------------------------------- C37
\* C37: every pair of bytes outside the supported encodings (5xyN and 9xyN
\* with N # 0, 8xy8..8xyD, 8xyF, Exxx, Fxxx) is classified as unrecognized by
\* decode, and executing it on a running machine is fatal: the machine is
\* left panicked and halted, with nothing else changed.
C37_UnsupportedIsFatal ==
  [][ (event'.fetched /\ Unsupported(event'.op0, event'.op1))
      => /\ event'.mnemonic = "INVALID"
         /\ Decode(event'.op0, event'.op1) = "INVALID"
         /\ chip8'.panicState /\ chip8'.halt
         /\ SameData(chip8', chip8) ]_vars

\* LD V2,[I] (Fx65, register block load) was executed and was fatal
C37_Witness ==
  /\ event.fetched /\ event.op0 = \hf2 /\ event.op1 = \h65
  /\ chip8.panicState /\ chip8.halt /\ chip8.PC = Entrypoint

\* ----------------------------------------------------------------- C38
\* the machine is about to execute DRW Vx,Vy,n with x and y different from F
AtDraw(m) ==
  /\ ~m.panicState /\ IsNum(m.PC) /\ JsLess(m.PC, TimerStopPC)
  /\ Fetch(m).op0 \div 16 = \hd
  /\ Fetch(m).op0 % 16 # \hf /\ Fetch(m).op1 \div 16 # \hf

\* a set bit of the sprite of the DRW at PC lands inside the framebuffer
SpriteLandsInside(m) ==
  LET f == Fetch(m)
      Vx == m.V[f.op0 % 16]
      Vy == m.V[f.op1 \div 16]
  IN \E i \in 0..((f.op1 % 16) - 1), c \in 0..7 :
       LET b == ReadMem(m.memory, JsPlus(m.I, i)) IN
       /\ IsNum(b) /\ Bit(b, 7 - c) = 1
       /\ (Vy + i) * 64 + Vx + c < 2048

\* execute() on the running machine m with its PC put back to pc
ExecuteAt(m, pc) == Execute([m EXCEPT !.PC = pc, !.halt = FALSE], 0).m

Bitwise(t, a, b) ==
  CHOOSE r \in 0..255 :
    \A k \in 0..7 : Bit(r, k) = t[Bit(a, k) + 2 * Bit(b, k) + 1]

\* what 8xy0..8xy3 leave in Vx
LogicResult(n, a, b) ==
  IF n = 0 THEN b
  ELSE IF n = 1 THEN Bitwise(<< 0, 1, 1, 1 >>, a, b)
  ELSE IF n = 2 THEN Bitwise(<< 0, 0, 0, 1 >>, a, b)
  ELSE Bitwise(<< 0, 1, 1, 0 >>, a, b)

\* C39: for x in 0..0xE and y in 0..0xF, LD Vx,Vy (8xy0) sets Vx = Vy and
\* OR, AND, XOR Vx,Vy (8xy1, 8xy2, 8xy3) set Vx to the bitwise OR, AND, XOR
\* of the old Vx and the old Vy; each changes no other register and moves PC
\* forward by 2.
C39_LogicOps ==
  [][ (event'.fetched /\ \E n \in 0..3 : Is8xyN(event', n))
      => LET n == event'.op1 % 16
             x == X(event')
             y == Y(event')
         IN /\ chip8'.V =
                 [chip8.V EXCEPT ![x] = LogicResult(n, chip8.V[x], chip8.V[y])]
            /\ chip8'.PC = event'.addr + 2
            /\ ~chip8'.panicState ]_vars

\* XOR VE,VF ran with VE = 0xFF and VF = 1
C39_Witness ==
  /\ Is8xyN(event, 3) /\ X(event) = \he /\ Y(event) = \hf
  /\ chip8.V[\he] = \hfe /\ chip8.V[\hf] = 1
  /\ chip8.PC = Entrypoint + 2

====
